---- MODULE Spec2Model ----
(***************************************************************************)
(* Loader hierarchy of the screw-driving data set: BaseLoader and its      *)
(* concrete loaders (DataFromPath, DataFromScenario, DataFromDmc,          *)
(* DataFromIds), ScrewRun / ScrewStep parsing, the aggregate pass and the  *)
(* OK / NOK ratio per screw cycle that the plots compute from it.          *)
(*                                                                         *)
(* One loader object is modelled.  Its fields are the variables below.  A  *)
(* method that raises leaves the fields as they are at the raise and sets  *)
(* err to the exception's name; err = "none" means the call returned.      *)
(***************************************************************************)
EXTENDS Integers, Sequences, FiniteSets, TLC

VARIABLES
    raw_listing,    \* os.listdir("data/00_raw-data/"): the record store (read-only)
    kind,           \* class of the loader object: "none" | "path" | "scenario" | "dmc" | "ids"
    alive,          \* TRUE when the constructor returned, so callers hold the object
    all_run_ids,    \* BaseLoader.all_run_ids
    all_runs,       \* BaseLoader.all_runs
    count_of_ok,    \* BaseLoader.count_of_ok
    count_of_nok,   \* BaseLoader.count_of_nok
    counts_of_dmc,  \* BaseLoader.counts_of_dmc
    labels_of_dmc,  \* BaseLoader.labels_of_dmc
    num_of_runs,    \* BaseLoader.num_of_runs
    num_of_dmcs,    \* BaseLoader.num_of_dmcs
    op,             \* the method the caller invoked last
    calls,          \* the loader methods that call entered, in order
    err,            \* "none", or the exception that call raised
    arg,            \* the argument the caller passed to that call
    returned        \* the ratios that call computed (ratios_OK, ratios_NOK), if any

vars == <<raw_listing, kind, alive, all_run_ids, all_runs, count_of_ok, count_of_nok,
          counts_of_dmc, labels_of_dmc, num_of_runs, num_of_dmcs, op, calls, err, arg, returned>>

----------------------------------------------------------------------------
(* Bounds of the model *)

\* longest all_run_ids the model lets a call build
MaxIds == 5
\* largest count_of_ok + count_of_nok the model lets update() reach
MaxCount == 6
\* longest list of paths / scenarios handed to a loader
MaxPaths == 2

----------------------------------------------------------------------------
(* The record store and the directories: the environment of a load *)

SeriesNames == <<"time values", "angle values", "torque values", "gradient values">>

EmptyDict == [k \in {} |-> 0]

\* A "graph" object of a tightening step holding all four series.
FullGraph(t, a, q, g) ==
    [k \in {"time values", "angle values", "torque values", "gradient values"} |->
        CASE k = "time values" -> t
          [] k = "angle values" -> a
          [] k = "torque values" -> q
          [] OTHER -> g]

\* A "graph" object that lacks "gradient values".
GraphWithoutGradient(t, a, q) ==
    [k \in {"time values", "angle values", "torque values"} |->
        CASE k = "time values" -> t
          [] k = "angle values" -> a
          [] OTHER -> q]

StepDict(n, g) == [k \in {"name", "graph"} |-> IF k = "name" THEN n ELSE g]

JsonDict(result, date, code, steps) ==
    [k \in {"result", "date", "id code", "tightening steps"} |->
        CASE k = "result" -> result
          [] k = "date" -> date
          [] k = "id code" -> code
          [] OTHER -> steps]

\* Content of each record file (json.load of the file), by file name.
FileContent(name) ==
    CASE name = "r1.json" ->
            JsonDict("OK", "d1", "W1",
                     <<StepDict("Finding", FullGraph(<<0, 1>>, <<10, 11>>, <<20>>, <<30>>)),
                       StepDict("Tightening", FullGraph(<<2>>, <<12>>, <<21, 22>>, <<>>))>>)
      [] name = "r2.json" ->
            JsonDict("NOK", "d2", "W1",
                     <<StepDict("Finding", FullGraph(<<0>>, <<13>>, <<23>>, <<31>>))>>)
      [] name = "r3.json" ->
            JsonDict("OK", "d3", "W2", <<>>)
      [] name = "r4.json" ->
            JsonDict("MAYBE", "d4", "W2",
                     <<StepDict("Finding", FullGraph(<<0>>, <<14>>, <<24>>, <<32>>))>>)
      [] name = "r5.json" ->
            JsonDict("NOK", "d5", "W2",
                     <<StepDict("Finding", FullGraph(<<0>>, <<15>>, <<25>>, <<33>>)),
                       StepDict("Tightening", GraphWithoutGradient(<<1>>, <<16>>, <<26>>))>>)
      [] OTHER -> EmptyDict

\* The listings the raw-data directory may have for the duration of a load.
RawListings ==
    { <<"r1.json", "r2.json", "r3.json">>,
      <<"r1.json", "r2.json", "r3.json", "r4.json">>,
      <<"r3.json", "r5.json", "r1.json">> }

RawDataPath == "data/00_raw-data/"

Range(s) == { s[i] : i \in DOMAIN s }

\* Directories of the file system other than the raw-data directory.
Directories ==
    { "data/01_repeated-screw-runs-x25",
      "data/02_repeated-screw-runs-x25-with-drilling",
      "data/empty" }

\* os.path.isdir
IsDir(path) == path = RawDataPath \/ path \in Directories

\* os.listdir
ListDir(path, raw) ==
    CASE path = RawDataPath -> raw
      [] path = "data/01_repeated-screw-runs-x25" -> <<"r1.json", "r2.json">>
      [] path = "data/02_repeated-screw-runs-x25-with-drilling" ->
            <<"r3.json", "notes.txt", "r4.json">>
      [] OTHER -> <<>>

\* str.endswith(".json") on the file names of the model
EndsWithJson(f) == f \in {"r1.json", "r2.json", "r3.json", "r4.json", "r5.json"}

----------------------------------------------------------------------------
(* ScrewStep and ScrewRun: parsing one record *)

\* ScrewStep.__init__: self.name = str(step_dict["name"]); self.graph = dict(step_dict["graph"])
ScrewStep(step_dict) == [name |-> step_dict["name"], graph |-> step_dict["graph"]]

\* ScrewStep.get_graph_values: self.graph[value_type]; a missing key raises KeyError
HasGraphValues(step, value_type) == value_type \in DOMAIN step.graph

get_graph_values(step, value_type) == step.graph[value_type]

\* Mutant of get_run_values: the series of a later step comes before the series of
\* an earlier one.
RECURSIVE get_run_values_last_step_first(_, _)
get_run_values_last_step_first(screw_steps, value) ==
    IF screw_steps = <<>>
    THEN <<>>
    ELSE get_run_values_last_step_first(Tail(screw_steps), value)
             \o get_graph_values(Head(screw_steps), value)

\* ScrewRun.get_run_values: list(chain.from_iterable(step.get_graph_values(value) ...))
RECURSIVE get_run_values(_, _)
get_run_values(screw_steps, value) ==
    IF screw_steps = <<>>
    THEN <<>>
    ELSE get_graph_values(Head(screw_steps), value) \o get_run_values(Tail(screw_steps), value)

\* Mutant of FileExists: the file is looked for in the raw data and in every other
\* directory.
FileExists_in_any_directory(name, raw) ==
    \/ name \in Range(raw)
    \/ \E path \in Directories : name \in Range(ListDir(path, raw))

\* ScrewRun.get_json_as_dict: the file is opened under the default path, the raw data
FileExists(name, raw) == name \in Range(raw)

\* The exception ScrewRun(name=name) raises, or "none".
ScrewRunError(name, raw) ==
    IF ~FileExists(name, raw)
    THEN "FileNotFoundError"
    ELSE LET json_dict == FileContent(name) IN
         IF ~({"result", "date", "id code", "tightening steps"} \subseteq DOMAIN json_dict)
         THEN "KeyError"
         ELSE LET steps == json_dict["tightening steps"] IN
              IF \E i \in DOMAIN steps : ~({"name", "graph"} \subseteq DOMAIN steps[i])
              THEN "KeyError"
              ELSE IF \E i \in DOMAIN steps : \E v \in Range(SeriesNames) :
                         ~HasGraphValues(ScrewStep(steps[i]), v)
                   THEN "KeyError"
                   ELSE "none"

\* ScrewRun.__init__ / set_attributes_from_json: the object built when nothing raises.
\* The result string is stored as read: no check against {"OK", "NOK"} is made here.
ScrewRun(name, raw) ==
    LET json_dict == FileContent(name)
        screw_steps == [i \in DOMAIN json_dict["tightening steps"] |->
                            ScrewStep(json_dict["tightening steps"][i])]
    IN  [name            |-> name,
         result          |-> json_dict["result"],
         date            |-> json_dict["date"],
         code            |-> json_dict["id code"],
         screw_steps     |-> screw_steps,
         time_values     |-> get_run_values(screw_steps, "time values"),
         angle_values    |-> get_run_values(screw_steps, "angle values"),
         torque_values   |-> get_run_values(screw_steps, "torque values"),
         gradient_values |-> get_run_values(screw_steps, "gradient values")]

----------------------------------------------------------------------------
(* BaseLoader: the loader object as a record, and its methods as functions  *)
(* from the object before the call to the object after it                   *)

\* BaseLoader.__init__
BaseLoaderInit ==
    [all_run_ids   |-> <<>>,
     all_runs      |-> <<>>,
     count_of_ok   |-> 0,
     count_of_nok  |-> 0,
     counts_of_dmc |-> EmptyDict,
     labels_of_dmc |-> EmptyDict,
     num_of_runs   |-> 0,
     num_of_dmcs   |-> 0,
     calls         |-> <<"BaseLoader.__init__">>,
     err           |-> "none"]

\* The object as the variables hold it, at the start of a call.
Self ==
    [all_run_ids   |-> all_run_ids,
     all_runs      |-> all_runs,
     count_of_ok   |-> count_of_ok,
     count_of_nok  |-> count_of_nok,
     counts_of_dmc |-> counts_of_dmc,
     labels_of_dmc |-> labels_of_dmc,
     num_of_runs   |-> num_of_runs,
     num_of_dmcs   |-> num_of_dmcs,
     calls         |-> <<>>,
     err           |-> "none"]

Raise(self, exception) == [self EXCEPT !.err = exception]

Enter(self, method) == [self EXCEPT !.calls = Append(@, method)]

\* Statement sequencing: the next statement runs only if nothing was raised.
Raised(self) == self.err # "none"

\* BaseLoader.load_runs: the list is built first and assigned only when every
\* ScrewRun was constructed; the first failing construction propagates.
RECURSIVE FirstError(_, _)
FirstError(run_ids, raw) ==
    IF run_ids = <<>>
    THEN "none"
    ELSE IF ScrewRunError(Head(run_ids), raw) # "none"
         THEN ScrewRunError(Head(run_ids), raw)
         ELSE FirstError(Tail(run_ids), raw)

\* The runs parsed before the first failure.
RECURSIVE ParsedPrefix(_, _)
ParsedPrefix(run_ids, raw) ==
    IF run_ids = <<>> \/ ScrewRunError(Head(run_ids), raw) # "none"
    THEN <<>>
    ELSE <<ScrewRun(Head(run_ids), raw)>> \o ParsedPrefix(Tail(run_ids), raw)

\* Mutant of load_runs: the runs are appended to all_runs one by one, so a failure
\* leaves the runs parsed before it.
load_runs_appending(self, raw) ==
    LET s == Enter(self, "load_runs") IN
    IF FirstError(s.all_run_ids, raw) # "none"
    THEN Raise([s EXCEPT !.all_runs = ParsedPrefix(s.all_run_ids, raw)],
               FirstError(s.all_run_ids, raw))
    ELSE [s EXCEPT !.all_runs = [i \in DOMAIN s.all_run_ids |-> ScrewRun(s.all_run_ids[i], raw)]]

\* Mutant of load_runs: one ScrewRun per distinct run id, in order of first occurrence.
load_runs_once_per_id(self, raw) ==
    LET s == Enter(self, "load_runs")
        ids == s.all_run_ids
        first == { i \in DOMAIN ids : \A j \in 1..(i - 1) : ids[j] # ids[i] }
        nth(k) == CHOOSE i \in first : Cardinality({ j \in first : j < i }) = k - 1
    IN
    IF FirstError(ids, raw) # "none"
    THEN Raise(s, FirstError(ids, raw))
    ELSE [s EXCEPT !.all_runs = [k \in 1..Cardinality(first) |-> ScrewRun(ids[nth(k)], raw)]]

\* Mutant of load_runs: a ScrewRun whose construction raises is left out and the
\* other runs are loaded.
load_runs_skipping_failures(self, raw) ==
    LET s == Enter(self, "load_runs")
        Parses(run_id) == ScrewRunError(run_id, raw) = "none"
        parsed == SelectSeq(s.all_run_ids, Parses)
    IN  [s EXCEPT !.all_runs = [i \in DOMAIN parsed |-> ScrewRun(parsed[i], raw)]]

load_runs(self, raw) ==
    LET s == Enter(self, "load_runs") IN
    IF FirstError(s.all_run_ids, raw) # "none"
    THEN Raise(s, FirstError(s.all_run_ids, raw))
    ELSE [s EXCEPT !.all_runs = [i \in DOMAIN s.all_run_ids |-> ScrewRun(s.all_run_ids[i], raw)]]

\* BaseLoader.update_label_counts: the loop from run i on
RECURSIVE label_counts_from(_, _)
label_counts_from(self, i) ==
    IF i > Len(self.all_runs)
    THEN self
    ELSE IF self.all_runs[i].result = "OK"
         THEN label_counts_from([self EXCEPT !.count_of_ok = @ + 1], i + 1)
         ELSE IF self.all_runs[i].result = "NOK"
              THEN label_counts_from([self EXCEPT !.count_of_nok = @ + 1], i + 1)
              ELSE Raise(self, "ValueError")

update_label_counts(self) == label_counts_from(self, 1)

\* dict[key] = value
DictSet(d, key, value) == [k \in DOMAIN d \cup {key} |-> IF k = key THEN value ELSE d[k]]

\* Mutant of dmc_dics_step: a repeated code is counted but its label is not appended.
dmc_dics_step_without_label(self, screw_run) ==
    IF screw_run.code \notin DOMAIN self.counts_of_dmc
    THEN [self EXCEPT !.counts_of_dmc = DictSet(@, screw_run.code, 1),
                      !.labels_of_dmc = DictSet(@, screw_run.code, <<screw_run.result>>)]
    ELSE [self EXCEPT !.counts_of_dmc = DictSet(@, screw_run.code, @[screw_run.code] + 1)]

\* Mutant of dmc_dics_step: the label of a repeated code is put in front of the list.
dmc_dics_step_prepending(self, screw_run) ==
    IF screw_run.code \notin DOMAIN self.counts_of_dmc
    THEN [self EXCEPT !.counts_of_dmc = DictSet(@, screw_run.code, 1),
                      !.labels_of_dmc = DictSet(@, screw_run.code, <<screw_run.result>>)]
    ELSE [self EXCEPT !.counts_of_dmc = DictSet(@, screw_run.code, @[screw_run.code] + 1),
                      !.labels_of_dmc = DictSet(@, screw_run.code,
                                                <<screw_run.result>> \o @[screw_run.code])]

\* BaseLoader.update_dmc_dics: the loop body for one run
dmc_dics_step(self, screw_run) ==
    IF screw_run.code \notin DOMAIN self.counts_of_dmc
    THEN [self EXCEPT !.counts_of_dmc = DictSet(@, screw_run.code, 1),
                      !.labels_of_dmc = DictSet(@, screw_run.code, <<screw_run.result>>)]
    ELSE IF screw_run.code \notin DOMAIN self.labels_of_dmc
         THEN Raise([self EXCEPT !.counts_of_dmc =
                                    DictSet(@, screw_run.code, @[screw_run.code] + 1)],
                    "KeyError")
         ELSE [self EXCEPT !.counts_of_dmc =
                               DictSet(@, screw_run.code, @[screw_run.code] + 1),
                           !.labels_of_dmc =
                               DictSet(@, screw_run.code,
                                       @[screw_run.code] \o <<screw_run.result>>)]

RECURSIVE dmc_dics_from(_, _)
dmc_dics_from(self, i) ==
    IF i > Len(self.all_runs) \/ Raised(self)
    THEN self
    ELSE dmc_dics_from(dmc_dics_step(self, self.all_runs[i]), i + 1)

update_dmc_dics(self) == dmc_dics_from(self, 1)

\* BaseLoader.update_num_of_runs
update_num_of_runs(self) ==
    IF Len(self.all_run_ids) = Len(self.all_runs)
    THEN [self EXCEPT !.num_of_runs = Len(self.all_runs)]
    ELSE Raise(self, "AssertionError: run ids")

\* BaseLoader.update_num_of_dmcs
update_num_of_dmcs(self) ==
    IF Cardinality(DOMAIN self.counts_of_dmc) = Cardinality(DOMAIN self.labels_of_dmc)
    THEN [self EXCEPT !.num_of_dmcs = Cardinality(DOMAIN self.counts_of_dmc)]
    ELSE Raise(self, "AssertionError: dmcs")

\* BaseLoader.update
update(self) ==
    LET s1 == update_label_counts(Enter(self, "update"))
        s2 == IF Raised(s1) THEN s1 ELSE update_dmc_dics(s1)
        s3 == IF Raised(s2) THEN s2 ELSE update_num_of_runs(s2)
    IN  IF Raised(s3) THEN s3 ELSE update_num_of_dmcs(s3)

----------------------------------------------------------------------------
(* The ratio of OK and NOK per screw cycle: BasePlotter.plot_dmc_label_ratio with  *)
(* calculate_ratios and calculate_counts; BaseLoader.plot_dmc_label_ratio holds    *)
(* the same statements inline.  A ratio a / b is the pair <<a, b>>.                *)

NoRatios == [err |-> "none", ratios_OK |-> <<>>, ratios_NOK |-> <<>>]

RaisedRatios(exception) == [NoRatios EXCEPT !.err = exception]

\* max([len(label) for label in labels_of_dmc.values()]), for a dict that has keys
MaxLabelLength(labels) ==
    CHOOSE n \in { Len(labels[key]) : key \in DOMAIN labels } :
        \A key \in DOMAIN labels : Len(labels[key]) <= n

\* Mutant of calculate_counts: a workpiece whose list does not reach an index is
\* left out of the sum for that index.
calculate_counts_where_present(labels, index) ==
    LET Count(label, at) ==
            Cardinality({ key \in DOMAIN labels :
                             at + 1 <= Len(labels[key]) /\ labels[key][at + 1] = label })
    IN  [err |-> "none",
         ok_count |-> Count("OK", index) + Count("OK", index + 1),
         nok_count |-> Count("NOK", index) + Count("NOK", index + 1)]

\* BasePlotter.calculate_counts: index counts from 0 as in the code, so
\* labels_of_dmc[key][index] is element index + 1 of the sequence; an index past the
\* end of a list raises IndexError.
calculate_counts(labels, index) ==
    LET Count(label, at) ==
            Cardinality({ key \in DOMAIN labels : labels[key][at + 1] = label })
    IN  IF \E key \in DOMAIN labels : Len(labels[key]) < index + 2
        THEN [err |-> "IndexError", ok_count |-> 0, nok_count |-> 0]
        ELSE [err |-> "none",
              ok_count |-> Count("OK", index) + Count("OK", index + 1),
              nok_count |-> Count("NOK", index) + Count("NOK", index + 1)]

\* BasePlotter.calculate_ratios: for i in range(0, max_length, 2)
calculate_ratios(labels, max_length) ==
    LET n == (max_length + 1) \div 2
        counts(k) == calculate_counts(labels, 2 * (k - 1))
        total_count(k) == counts(k).ok_count + counts(k).nok_count
        ratio(count, total) == IF total # 0 THEN <<count, total>> ELSE <<0, 1>>
    IN  IF \E k \in 1..n : counts(k).err # "none"
        THEN RaisedRatios("IndexError")
        ELSE [err |-> "none",
              ratios_OK |-> [k \in 1..n |-> ratio(counts(k).ok_count, total_count(k))],
              ratios_NOK |-> [k \in 1..n |-> ratio(counts(k).nok_count, total_count(k))]]

\* plot_dmc_label_ratio up to the ratios it draws: max() of an empty list raises
\* ValueError.
plot_dmc_label_ratio(labels) ==
    IF DOMAIN labels = {}
    THEN RaisedRatios("ValueError")
    ELSE calculate_ratios(labels, MaxLabelLength(labels))

----------------------------------------------------------------------------
(* Scenarios: the registry of scenario numbers, names and paths *)

ScenarioNumbers == <<1, 2>>

ScenarioNames ==
    <<"Wiederholte Verschraubungen x25",
      "Wiederholte Verschraubungen x25 mit Aufbohrung">>

ScenarioPaths ==
    <<"data/01_repeated-screw-runs-x25",
      "data/02_repeated-screw-runs-x25-with-drilling">>

\* list.index: the first position holding x
IndexOf(list, x) == CHOOSE i \in DOMAIN list : list[i] = x /\ \A j \in 1..(i - 1) : list[j] # x

\* Scenarios.get_path_by_number: "error" stands for InvalidScenarioError
get_path_by_number(number) ==
    IF number \notin Range(ScenarioNumbers)
    THEN "InvalidScenarioError"
    ELSE ScenarioPaths[IndexOf(ScenarioNumbers, number)]

\* Mutant of get_path_by_name: the position found in names is counted from the end
\* of paths.
get_path_by_name_from_end(name) ==
    IF name \notin Range(ScenarioNames)
    THEN "InvalidScenarioError"
    ELSE ScenarioPaths[Len(ScenarioPaths) + 1 - IndexOf(ScenarioNames, name)]

\* Scenarios.get_path_by_name
get_path_by_name(name) ==
    IF name \notin Range(ScenarioNames)
    THEN "InvalidScenarioError"
    ELSE ScenarioPaths[IndexOf(ScenarioNames, name)]

----------------------------------------------------------------------------
(* The concrete loaders *)

\* An argument is a record: type is its Python type ("str", "int", "list", "other");
\* a string is held in str, a number in num, the elements of a list in items.
PyStr(s) == [type |-> "str", str |-> s, num |-> 0, items |-> <<>>]
PyInt(n) == [type |-> "int", str |-> "", num |-> n, items |-> <<>>]
PyList(l) == [type |-> "list", str |-> "", num |-> 0, items |-> l]
PyOther == [type |-> "other", str |-> "", num |-> 0, items |-> <<>>]
PyNone == [type |-> "none", str |-> "", num |-> 0, items |-> <<>>]
\* A Python list of str, and the strings of such a list.
PyStrList(l) == PyList([i \in DOMAIN l |-> PyStr(l[i])])
StrsOf(a) == [i \in DOMAIN a.items |-> a.items[i].str]

\* Mutant of extend_from_paths: the listing of each path is put in front of the ids
\* collected so far.
RECURSIVE extend_from_paths_in_front(_, _, _, _)
extend_from_paths_in_front(self, paths, i, raw) ==
    IF i > Len(paths)
    THEN self
    ELSE IF ~IsDir(paths[i])
         THEN Raise(self, "InvalidPathError")
         ELSE extend_from_paths_in_front(
                  [self EXCEPT !.all_run_ids = SelectSeq(ListDir(paths[i], raw), EndsWithJson) \o @],
                  paths, i + 1, raw)

\* DataFromPath.load_run_ids: the loop over paths, from path i on
RECURSIVE extend_from_paths(_, _, _, _)
extend_from_paths(self, paths, i, raw) ==
    IF i > Len(paths)
    THEN self
    ELSE IF ~IsDir(paths[i])
         THEN Raise(self, "InvalidPathError")
         ELSE extend_from_paths(
                  [self EXCEPT !.all_run_ids = @ \o SelectSeq(ListDir(paths[i], raw), EndsWithJson)],
                  paths, i + 1, raw)

\* Mutant of load_run_ids_from_path: all_run_ids is emptied together with all_runs
\* before the paths are listed.
load_run_ids_from_path_clearing(self, path, raw) ==
    LET s == Enter(self, "load_run_ids") IN
    IF path.type \notin {"str", "list"}
    THEN Raise(s, "ValueError")
    ELSE LET paths == IF path.type = "str" THEN <<path.str>>
                      ELSE [i \in DOMAIN path.items |-> path.items[i].str]
         IN  extend_from_paths([s EXCEPT !.all_runs = <<>>, !.all_run_ids = <<>>],
                               paths, 1, raw)

\* DataFromPath.load_run_ids
load_run_ids_from_path(self, path, raw) ==
    LET s == Enter(self, "load_run_ids") IN
    IF path.type \notin {"str", "list"}
    THEN Raise(s, "ValueError")
    ELSE LET paths == IF path.type = "str" THEN <<path.str>>
                      ELSE [i \in DOMAIN path.items |-> path.items[i].str]
         IN  extend_from_paths([s EXCEPT !.all_runs = <<>>], paths, 1, raw)

\* DataFromDmc.load_run_ids: a ScrewRun is constructed for every file of the raw
\* data; the ids are assigned after the loop.  dmcs_to_load is a list of codes.
load_run_ids_from_dmc(self, dmcs_to_load, raw) ==
    LET s == Enter(self, "load_run_ids") IN
    IF FirstError(raw, raw) # "none"
    THEN Raise(s, FirstError(raw, raw))
    ELSE LET InDmcs(file_name) == ScrewRun(file_name, raw).code \in Range(dmcs_to_load)
         IN  [s EXCEPT !.all_run_ids = SelectSeq(raw, InDmcs)]

\* load_and_update: called by the constructors; loads the runs, then runs the
\* aggregate pass.
load_and_update(self, raw) ==
    LET s1 == load_runs(self, raw)
    IN  IF Raised(s1) THEN s1 ELSE update(s1)

\* Mutant of DataFromPathInit: the runs are loaded and aggregated before the
\* identifiers are.
DataFromPathInit_ids_last(path, raw) ==
    LET s1 == load_and_update(BaseLoaderInit, raw)
    IN  IF Raised(s1) THEN s1 ELSE load_run_ids_from_path(s1, path, raw)

\* DataFromPath.__init__
DataFromPathInit(path, raw) ==
    LET s1 == load_run_ids_from_path(BaseLoaderInit, path, raw)
    IN  IF Raised(s1) THEN s1 ELSE load_and_update(s1, raw)

\* DataFromDmc.__init__
DataFromDmcInit(dmcs_to_load, raw) ==
    LET s1 == load_run_ids_from_dmc(BaseLoaderInit, dmcs_to_load, raw)
    IN  IF Raised(s1) THEN s1 ELSE load_and_update(s1, raw)

\* The object before BaseLoader.__init__ has run: no method was entered.
Unconstructed == [BaseLoaderInit EXCEPT !.calls = <<>>]

\* Mutant of DataFromScenarioInit: a scenario that is not registered is left out and
\* the registered ones are loaded.
DataFromScenarioInit_skipping_unknown(scenarios_to_load, raw) ==
    LET items == IF scenarios_to_load.type = "list" THEN scenarios_to_load.items
                 ELSE <<scenarios_to_load>>
        all_int == \A i \in DOMAIN items : items[i].type = "int"
        all_str == \A i \in DOMAIN items : items[i].type = "str"
        paths == [i \in DOMAIN items |->
                    IF all_int THEN get_path_by_number(items[i].num)
                    ELSE get_path_by_name(items[i].str)]
        Known(path) == path # "InvalidScenarioError"
    IN  IF ~all_int /\ ~all_str
        THEN Raise(Unconstructed, "ValueError")
        ELSE DataFromPathInit(PyStrList(SelectSeq(paths, Known)), raw)

\* DataFromScenario.__init__: the scenarios are resolved before the superclass
\* constructor runs.
DataFromScenarioInit(scenarios_to_load, raw) ==
    LET items == IF scenarios_to_load.type = "list" THEN scenarios_to_load.items
                 ELSE <<scenarios_to_load>>
        all_int == \A i \in DOMAIN items : items[i].type = "int"
        all_str == \A i \in DOMAIN items : items[i].type = "str"
        paths == [i \in DOMAIN items |->
                    IF all_int THEN get_path_by_number(items[i].num)
                    ELSE get_path_by_name(items[i].str)]
    IN  IF ~all_int /\ ~all_str
        THEN Raise(Unconstructed, "ValueError")
        ELSE IF \E i \in DOMAIN paths : paths[i] = "InvalidScenarioError"
             THEN Raise(Unconstructed, "InvalidScenarioError")
             ELSE DataFromPathInit(PyList([i \in DOMAIN paths |-> PyStr(paths[i])]), raw)

\* DataFromIds.__init__: the class leaves load_run_ids abstract, and "super.__init__()"
\* names the type super, not super(): the construction raises TypeError before any
\* field is set.
DataFromIdsInit(ids) == Raise(Unconstructed, "TypeError")

----------------------------------------------------------------------------
(* Inputs *)

Paths == Directories \cup {RawDataPath, "data/no-such-directory"}

SeqsUpTo(S, n) == UNION { [1..k -> S] : k \in 0..n }

PathArguments ==
    { PyStr(p) : p \in Paths } \cup { PyList(l) : l \in SeqsUpTo({ PyStr(p) : p \in Paths }, MaxPaths) }
        \cup { PyOther }

ScenarioItems ==
    { PyInt(n) : n \in 1..3 } \cup { PyStr(n) : n \in Range(ScenarioNames) \cup {"unknown"} }

ScenarioArguments == ScenarioItems \cup { PyList(l) : l \in SeqsUpTo(ScenarioItems, MaxPaths) }

DmcArguments == { <<>>, <<"W1">>, <<"W2">>, <<"W1", "W2">> }

IdsArguments == { <<>>, <<"r1.json">>, <<"r1.json", "r2.json">> }

----------------------------------------------------------------------------
(* The state machine *)

\* The fields of the object after a call.
Assign(self) ==
    /\ all_run_ids' = self.all_run_ids
    /\ all_runs' = self.all_runs
    /\ count_of_ok' = self.count_of_ok
    /\ count_of_nok' = self.count_of_nok
    /\ counts_of_dmc' = self.counts_of_dmc
    /\ labels_of_dmc' = self.labels_of_dmc
    /\ num_of_runs' = self.num_of_runs
    /\ num_of_dmcs' = self.num_of_dmcs
    /\ calls' = self.calls
    /\ err' = self.err

\* What the bounds of the model admit.
WithinBounds(self) ==
    /\ Len(self.all_run_ids) <= MaxIds
    /\ self.count_of_ok + self.count_of_nok <= MaxCount

\* No loader object exists.
NoObject ==
    /\ kind = "none"
    /\ alive = FALSE
    /\ op = "none"
    /\ all_run_ids = <<>>
    /\ all_runs = <<>>
    /\ count_of_ok = 0
    /\ count_of_nok = 0
    /\ counts_of_dmc = EmptyDict
    /\ labels_of_dmc = EmptyDict
    /\ num_of_runs = 0
    /\ num_of_dmcs = 0
    /\ calls = <<>>
    /\ err = "none"
    /\ arg = PyNone
    /\ returned = NoRatios

Init ==
    /\ raw_listing \in RawListings
    /\ NoObject

\* A constructor ran and left the object as self.
Constructed(class, self, argument) ==
    /\ ~alive
    /\ WithinBounds(self)
    /\ Assign(self)
    /\ arg' = argument
    /\ returned' = NoRatios
    /\ kind' = class
    /\ alive' = (self.err = "none")
    /\ op' = "__init__"
    /\ UNCHANGED raw_listing

NewDataFromPath ==
    \E path \in PathArguments : Constructed("path", DataFromPathInit(path, raw_listing), path)

NewDataFromScenario ==
    \E scenarios_to_load \in ScenarioArguments :
        Constructed("scenario", DataFromScenarioInit(scenarios_to_load, raw_listing),
                    scenarios_to_load)

NewDataFromDmc ==
    \E dmcs_to_load \in DmcArguments :
        Constructed("dmc", DataFromDmcInit(dmcs_to_load, raw_listing), PyStrList(dmcs_to_load))

NewDataFromIds ==
    \E ids \in IdsArguments : Constructed("ids", DataFromIdsInit(ids), PyStrList(ids))

\* A method of the object the caller holds was called and left it as self.
Called(method, self, argument) ==
    /\ alive
    /\ WithinBounds(self)
    /\ Assign(self)
    /\ arg' = argument
    /\ returned' = NoRatios
    /\ op' = method
    /\ UNCHANGED <<raw_listing, kind, alive>>

CallLoadRunIdsFromPath ==
    /\ kind \in {"path", "scenario"}
    /\ \E path \in PathArguments :
          Called("load_run_ids", load_run_ids_from_path(Self, path, raw_listing), path)

CallLoadRunIdsFromDmc ==
    /\ kind = "dmc"
    /\ \E dmcs_to_load \in DmcArguments :
          Called("load_run_ids", load_run_ids_from_dmc(Self, dmcs_to_load, raw_listing),
                 PyStrList(dmcs_to_load))

CallLoadRuns == Called("load_runs", load_runs(Self, raw_listing), PyNone)

CallUpdate == Called("update", update(Self), PyNone)

\* A plot of the label ratio was asked for: the fields of the loader are read only.
Plotted(method, ratios) ==
    /\ alive
    /\ op' = method
    /\ calls' = <<method>>
    /\ err' = ratios.err
    /\ arg' = PyNone
    /\ returned' = ratios
    /\ UNCHANGED <<raw_listing, kind, alive, all_run_ids, all_runs, count_of_ok, count_of_nok,
                   counts_of_dmc, labels_of_dmc, num_of_runs, num_of_dmcs>>

CallPlotterPlotDmcLabelRatio ==
    Plotted("BasePlotter.plot_dmc_label_ratio", plot_dmc_label_ratio(labels_of_dmc))

CallLoaderPlotDmcLabelRatio ==
    Plotted("BaseLoader.plot_dmc_label_ratio", plot_dmc_label_ratio(labels_of_dmc))

\* The caller drops the object it holds; the next loader is a new object.
Discard ==
    /\ alive
    /\ Assign(Unconstructed)
    /\ kind' = "none"
    /\ alive' = FALSE
    /\ op' = "none"
    /\ arg' = PyNone
    /\ returned' = NoRatios
    /\ UNCHANGED raw_listing

Next ==
    \/ NewDataFromPath
    \/ NewDataFromScenario
    \/ NewDataFromDmc
    \/ NewDataFromIds
    \/ CallLoadRunIdsFromPath
    \/ CallLoadRunIdsFromDmc
    \/ CallLoadRuns
    \/ CallUpdate
    \/ CallPlotterPlotDmcLabelRatio
    \/ CallLoaderPlotDmcLabelRatio
    \/ Discard

Spec == Init /\ [][Next]_vars

----------------------------------------------------------------------------
(* What a single aggregate pass over a list of runs yields, stated without  *)
(* the loops of the code                                                    *)

Outcomes == {"OK", "NOK"}

CountOfResult(runs, result) == Cardinality({ i \in DOMAIN runs : runs[i].result = result })

CodesOf(runs) == { runs[i].code : i \in DOMAIN runs }

CountOfCode(runs, code) == Cardinality({ i \in DOMAIN runs : runs[i].code = code })

RECURSIVE ResultsOfCode(_, _)
ResultsOfCode(runs, code) ==
    IF runs = <<>>
    THEN <<>>
    ELSE (IF Head(runs).code = code THEN <<Head(runs).result>> ELSE <<>>)
             \o ResultsOfCode(Tail(runs), code)

RECURSIVE SumOfValues(_)
SumOfValues(dict) ==
    IF DOMAIN dict = {}
    THEN 0
    ELSE LET k == CHOOSE x \in DOMAIN dict : TRUE
         IN  dict[k] + SumOfValues([x \in DOMAIN dict \ {k} |-> dict[x]])

\* The four aggregates equal one pass over the current all_runs.
SinglePassAggregates ==
    /\ count_of_ok = CountOfResult(all_runs, "OK")
    /\ count_of_nok = CountOfResult(all_runs, "NOK")
    /\ DOMAIN counts_of_dmc = CodesOf(all_runs)
    /\ DOMAIN labels_of_dmc = CodesOf(all_runs)
    /\ \A w \in CodesOf(all_runs) :
          /\ counts_of_dmc[w] = CountOfCode(all_runs, w)
          /\ labels_of_dmc[w] = ResultsOfCode(all_runs, w)

\* The aggregate pass of the last call ran to its end: update() returned, or a
\* constructor returned (its last step is update()).
UpdateCompleted == op \in {"update", "__init__"} /\ err = "none"

\* The last call was update() and it raised.
UpdateFailed == op = "update" /\ err # "none"

Aggregates ==
    <<count_of_ok, count_of_nok, counts_of_dmc, labels_of_dmc, num_of_runs, num_of_dmcs>>

----------------------------------------------------------------------------
(* Claims *)

\* C1: once update() has completed on a loader, count_of_ok + count_of_nok equals
\* len(all_runs).  Stated as written; update() adds to the counters of the earlier
\* pass (C2), so a second completed pass breaks it.
C1_LabelCountsSumToRuns ==
    UpdateCompleted => count_of_ok + count_of_nok = Len(all_runs)

\* C2: after any number of update() calls, with all_runs unchanged or replaced by
\* another load_runs(), the four aggregates equal the result of a single pass over
\* the current all_runs.
C2_UpdateRecomputes ==
    UpdateCompleted => SinglePassAggregates

\* C3: every ScrewRun held in all_runs has result OK or NOK: a record with another
\* result fails at construction and never enters all_runs.
C3_RunsHaveKnownOutcome ==
    \A i \in DOMAIN all_runs : all_runs[i].result \in Outcomes

\* C4: an update() that raises leaves count_of_ok, count_of_nok, counts_of_dmc,
\* labels_of_dmc, num_of_runs and num_of_dmcs as they were before the call.
C4_FailedUpdateKeepsAggregates ==
    [][UpdateFailed' /\ alive => Aggregates' = Aggregates]_vars

\* C5: load_runs() fails as a whole when constructing the ScrewRun of any
\* identifier fails, and then leaves all_runs exactly as it was: no prefix of
\* the runs parsed before the failure is kept.  The same holds of the load_runs()
\* a constructor runs, which starts from the empty list.
C5_LoadRunsFailFast ==
    [][/\ (alive /\ op' = "load_runs")
            => /\ (\E i \in DOMAIN all_run_ids :
                      ScrewRunError(all_run_ids[i], raw_listing) # "none") <=> (err' # "none")
               /\ err' # "none" => all_runs' = all_runs
       /\ (op' = "__init__" /\ err' # "none" /\ calls' # <<>>
              /\ calls'[Len(calls')] = "load_runs")
            => all_runs' = <<>>]_vars

\* C5 witness: load_runs() failed at a later identifier after an earlier one parsed.
C5_Witness ==
    /\ op = "load_runs"
    /\ err = "FileNotFoundError"
    /\ Len(all_run_ids) >= 2
    /\ ScrewRunError(all_run_ids[1], raw_listing) = "none"
    /\ all_runs = <<>>

\* C6: a completed load has len(all_run_ids) = len(all_runs) = num_of_runs, and
\* whenever the two lengths differ update() raises the consistency error of
\* update_num_of_runs and does not assign num_of_runs.  Stated as written; a run
\* with an unknown result held in all_runs (C3) makes update() raise the
\* unknown-label error before the length check is reached.
C6_LengthCheck ==
    [][/\ UpdateCompleted' => /\ Len(all_run_ids') = Len(all_runs')
                              /\ num_of_runs' = Len(all_runs')
       /\ (alive /\ op' = "update" /\ Len(all_run_ids) # Len(all_runs))
            => /\ err' = "AssertionError: run ids"
               /\ num_of_runs' = num_of_runs]_vars

\* C7: once update() has completed, the values of counts_of_dmc sum to
\* len(all_runs).  Stated as written; update() adds to the counts of the earlier
\* pass (C2), so a second completed pass breaks it.
C7_DmcCountsSumToRuns ==
    UpdateCompleted => SumOfValues(counts_of_dmc) = Len(all_runs)

\* C8: in every reachable state counts_of_dmc and labels_of_dmc have the same keys
\* and len(labels_of_dmc[w]) = counts_of_dmc[w] for every workpiece code w, so the
\* cross-check of update_num_of_dmcs never fails.
C8_DmcDictsAgree ==
    /\ DOMAIN counts_of_dmc = DOMAIN labels_of_dmc
    /\ \A w \in DOMAIN counts_of_dmc : Len(labels_of_dmc[w]) = counts_of_dmc[w]
    /\ err # "AssertionError: dmcs"

\* C8 witness: a workpiece counted over repeated passes, the last of which failed.
C8_Witness ==
    /\ alive
    /\ UpdateFailed
    /\ \E w \in DOMAIN counts_of_dmc : counts_of_dmc[w] >= 3 /\ Len(labels_of_dmc[w]) >= 3

\* The aggregates are as BaseLoader.__init__ set them.
FreshAggregates ==
    /\ count_of_ok = 0
    /\ count_of_nok = 0
    /\ counts_of_dmc = EmptyDict
    /\ labels_of_dmc = EmptyDict

\* C9: after the aggregate pass on a freshly loaded loader (by the constructor, or
\* by update() on a loader whose aggregates are still as constructed), for every
\* workpiece code w labels_of_dmc[w] is the sequence of results of the runs of
\* all_runs with code w, in load order, counts_of_dmc[w] their number, and
\* count_of_ok / count_of_nok the numbers of OK / NOK runs.
C9_LabelsInLoadOrder ==
    [][(\/ alive /\ FreshAggregates /\ op' = "update" /\ err' = "none"
        \/ ~alive /\ op' = "__init__" /\ err' = "none")
          => SinglePassAggregates']_vars

\* C9 witness: two runs with outcomes OK then NOK sharing W1 were loaded.
C9_Witness ==
    /\ UpdateCompleted
    /\ Len(all_runs) = 2
    /\ all_runs[1].result = "OK" /\ all_runs[2].result = "NOK"
    /\ all_runs[1].code = "W1" /\ all_runs[2].code = "W1"
    /\ labels_of_dmc = [w \in {"W1"} |-> <<"OK", "NOK">>]
    /\ counts_of_dmc = [w \in {"W1"} |-> 2]
    /\ count_of_ok = 1
    /\ count_of_nok = 1

\* all_runs holds the run of every identifier of all_run_ids, in order.
RunsFetched ==
    /\ Len(all_runs) = Len(all_run_ids)
    /\ \A i \in DOMAIN all_runs : all_runs[i].name = all_run_ids[i]

\* The stage a completed load ends in.
Aggregated ==
    /\ RunsFetched
    /\ SinglePassAggregates
    /\ num_of_runs = Len(all_runs)
    /\ num_of_dmcs = Cardinality(CodesOf(all_runs))

Lifecycle == <<"BaseLoader.__init__", "load_run_ids", "load_runs", "update">>

IsPrefix(s, t) == Len(s) <= Len(t) /\ \A i \in DOMAIN s : s[i] = t[i]

LoadRunsReturned ==
    /\ \E k \in DOMAIN calls : calls[k] = "load_runs"
    /\ err = "none" \/ calls[Len(calls)] # "load_runs"

C11_RunsAlignedWithIds ==
    LoadRunsReturned =>
        /\ Len(all_runs) = Len(all_run_ids)
        /\ \A i \in DOMAIN all_run_ids : all_runs[i].name = all_run_ids[i]

C11_Witness ==
    /\ op = "load_runs"
    /\ LoadRunsReturned
    /\ \E i, j \in DOMAIN all_run_ids : i < j /\ all_run_ids[i] = all_run_ids[j]
    /\ \A i \in DOMAIN all_run_ids : all_runs[i].name = all_run_ids[i]

\* The paths a caller handed to DataFromPath, as a list.
PathsGiven(argument) ==
    IF argument.type = "str" THEN <<argument.str>> ELSE StrsOf(argument)

\* The .json files of the directories of a list of paths, directory by directory.
RECURSIVE JsonListings(_, _)
JsonListings(paths, raw) ==
    IF paths = <<>>
    THEN <<>>
    ELSE LET listing == ListDir(Head(paths), raw)
             json == { i \in DOMAIN listing : EndsWithJson(listing[i]) }
             before(i) == Cardinality({ j \in json : j < i })
         IN  [k \in 1..Cardinality(json) |->
                  listing[CHOOSE i \in json : before(i) = k - 1]]
             \o JsonListings(Tail(paths), raw)

\* A call of DataFromPath.load_run_ids, by the constructor or by the caller, on
\* one directory or a list of directories.
PathSourceStep ==
    /\ \/ op' = "__init__" /\ kind' = "path"
       \/ op' = "load_run_ids" /\ kind' \in {"path", "scenario"}
    /\ arg'.type \in {"str", "list"}

\* all_run_ids of the loader the call started from: a constructor starts from [].
IdsBefore == IF op' = "__init__" THEN <<>> ELSE all_run_ids

C13_InvalidPathKeepsIds ==
    [][(PathSourceStep /\ \E p \in Range(PathsGiven(arg')) : ~IsDir(p)) =>
          /\ err' = "InvalidPathError"
          /\ op' = "load_run_ids" => all_run_ids' = all_run_ids]_vars

\* C14: number and name of the same scenario resolve to the same path: for every
\* registered index k, get_path_by_number(numbers[k]) = get_path_by_name(names[k])
\* = paths[k]; a DataFromScenario built from the number or from the name of scenario
\* k lists the directory paths[k].
C14_NumberAndNameSamePath ==
    /\ DOMAIN ScenarioNumbers = DOMAIN ScenarioPaths
    /\ DOMAIN ScenarioNames = DOMAIN ScenarioPaths
    /\ \A k \in DOMAIN ScenarioPaths :
          /\ get_path_by_number(ScenarioNumbers[k]) = ScenarioPaths[k]
          /\ get_path_by_name(ScenarioNames[k]) = ScenarioPaths[k]
          /\ (/\ kind = "scenario"
              /\ op = "__init__"
              /\ arg \in {PyInt(ScenarioNumbers[k]), PyStr(ScenarioNames[k])})
             => /\ calls[2] = "load_run_ids"
                /\ all_run_ids = JsonListings(<<ScenarioPaths[k]>>, raw_listing)

C14_Witness ==
    /\ kind = "scenario"
    /\ op = "__init__"
    /\ arg = PyStr(ScenarioNames[2])
    /\ get_path_by_name(arg.str) = get_path_by_number(2)
    /\ all_run_ids = <<"r3.json", "r4.json">>

\* The scenarios a caller handed to DataFromScenario, as a list.
ScenariosGiven(argument) ==
    IF argument.type = "list" THEN argument.items ELSE <<argument>>

MixedScenarios(items) ==
    /\ \E i \in DOMAIN items : items[i].type # "int"
    /\ \E i \in DOMAIN items : items[i].type # "str"

RegisteredScenario(item) ==
    \/ item.type = "int" /\ \E k \in DOMAIN ScenarioNumbers : ScenarioNumbers[k] = item.num
    \/ item.type = "str" /\ \E k \in DOMAIN ScenarioNames : ScenarioNames[k] = item.str

PathOfScenario(item) ==
    ScenarioPaths[CHOOSE k \in DOMAIN ScenarioPaths :
                      \/ item.type = "int" /\ ScenarioNumbers[k] = item.num
                      \/ item.type = "str" /\ ScenarioNames[k] = item.str]

\* No loader method was entered and no field holds anything.
NothingProduced ==
    /\ ~alive
    /\ calls = <<>>
    /\ all_run_ids = <<>> /\ all_runs = <<>>
    /\ count_of_ok = 0 /\ count_of_nok = 0
    /\ counts_of_dmc = EmptyDict /\ labels_of_dmc = EmptyDict
    /\ num_of_runs = 0 /\ num_of_dmcs = 0

\* C15: DataFromScenario raises ValueError when the scenarios given mix numbers and
\* names, and InvalidScenarioError when they are of one form and one of them is not
\* registered; both are raised before DataFromPath.__init__ runs, so no ids, runs or
\* aggregates exist.  Otherwise the directories of the scenarios, in the order the
\* scenarios were given, are what DataFromPath lists.
C15_ScenarioSourceFailsFirst ==
    (kind = "scenario" /\ op = "__init__") =>
        LET items == ScenariosGiven(arg) IN
        IF MixedScenarios(items)
        THEN err = "ValueError" /\ NothingProduced
        ELSE IF \E i \in DOMAIN items : ~RegisteredScenario(items[i])
             THEN err = "InvalidScenarioError" /\ NothingProduced
             ELSE /\ calls[1] = "BaseLoader.__init__"
                  /\ calls[2] = "load_run_ids"
                  /\ all_run_ids =
                        JsonListings([i \in DOMAIN items |-> PathOfScenario(items[i])],
                                     raw_listing)

C15_Witness ==
    /\ kind = "scenario"
    /\ op = "__init__"
    /\ arg = PyList(<<PyInt(1), PyInt(3)>>)
    /\ err = "InvalidScenarioError"
    /\ NothingProduced

\* C16: a DataFromIds built from a list ids is constructed, its get_run_ids() returns
\* exactly ids, and all_runs holds parsed runs only, never the id strings.
C16_IdsSourceKeepsIds ==
    (kind = "ids" /\ op = "__init__") =>
        /\ err = "none"
        /\ alive
        /\ all_run_ids = StrsOf(arg)
        /\ \A i \in DOMAIN all_runs : all_runs[i] = ScrewRun(all_run_ids[i], raw_listing)

\* The attribute of a run that holds the series of a given name.
RunValues(run, value) ==
    CASE value = "time values" -> run.time_values
      [] value = "angle values" -> run.angle_values
      [] value = "torque values" -> run.torque_values
      [] value = "gradient values" -> run.gradient_values

\* Number of values of a series in the first k steps of a run.
RECURSIVE ValuesInSteps(_, _, _)
ValuesInSteps(run, value, k) ==
    IF k = 0 THEN 0
    ELSE ValuesInSteps(run, value, k - 1) + Len(run.screw_steps[k].graph[value])

\* C17: for every loaded run and each of the four series, the values of the run are
\* the values of its steps, step after step in step order: their number is the sum of
\* the numbers of values of the steps (none for a run without steps), and value j of
\* step k stands at position (values of steps 1..k-1) + j.
C17_RunValuesConcatenateSteps ==
    \A r \in DOMAIN all_runs : \A v \in Range(SeriesNames) :
        LET run == all_runs[r] IN
        /\ Len(RunValues(run, v)) = ValuesInSteps(run, v, Len(run.screw_steps))
        /\ \A k \in DOMAIN run.screw_steps : \A j \in DOMAIN run.screw_steps[k].graph[v] :
              RunValues(run, v)[ValuesInSteps(run, v, k - 1) + j] = run.screw_steps[k].graph[v][j]

C17_Witness ==
    /\ \E r \in DOMAIN all_runs :
          /\ Len(all_runs[r].screw_steps) = 2
          /\ all_runs[r].torque_values = <<20, 21, 22>>
          /\ all_runs[r].gradient_values = <<30>>
    /\ \E r \in DOMAIN all_runs :
          /\ all_runs[r].screw_steps = <<>>
          /\ all_runs[r].time_values = <<>>

\* A record file one of whose tightening steps lacks one of the four series.
LacksSeries(name) ==
    LET steps == FileContent(name)["tightening steps"] IN
    \E k \in DOMAIN steps : \E v \in Range(SeriesNames) : v \notin DOMAIN steps[k]["graph"]

\* C18: get_graph_values raises KeyError for a series the step does not hold and
\* nothing catches it, so constructing a ScrewRun raises whenever one of its steps
\* lacks one of the four series: load_runs over such a record raises (KeyError when
\* it is the first record that fails) and no loaded run has a step that lacks a series.
C18_MissingSeriesRaises ==
    /\ [](\A r \in DOMAIN all_runs : \A k \in DOMAIN all_runs[r].screw_steps :
              \A v \in Range(SeriesNames) : v \in DOMAIN all_runs[r].screw_steps[k].graph)
    /\ [][(alive /\ op' = "load_runs") =>
              \A i \in DOMAIN all_run_ids :
                  (FileExists(all_run_ids[i], raw_listing) /\ LacksSeries(all_run_ids[i])) =>
                      /\ err' # "none"
                      /\ (\A j \in 1..(i - 1) :
                              /\ FileExists(all_run_ids[j], raw_listing)
                              /\ ~LacksSeries(all_run_ids[j]))
                         => err' = "KeyError"]_vars

C18_Witness ==
    /\ op = "load_runs"
    /\ err = "KeyError"
    /\ \E i \in DOMAIN all_run_ids :
          FileExists(all_run_ids[i], raw_listing) /\ LacksSeries(all_run_ids[i])

\* Every workpiece has the same, even number of labels.
SameEvenLength(labels) ==
    /\ \A key \in DOMAIN labels : Len(labels[key]) % 2 = 0
    /\ \A key1, key2 \in DOMAIN labels : Len(labels[key1]) = Len(labels[key2])

PlotStep ==
    op' \in {"BasePlotter.plot_dmc_label_ratio", "BaseLoader.plot_dmc_label_ratio"}

\* C19: the ratio aggregation reads labels i and i + 1 of every workpiece for every
\* even i below the length of the longest list.  It returns only when all lists have
\* the same, even length, and raises IndexError otherwise; when it returns there is
\* one ratio per pair of labels and the ok_count + nok_count behind each ratio is
\* 2 * (number of workpieces).
C19_RatioNeedsSameEvenLength ==
    [][PlotStep =>
          /\ err' = "none" => SameEvenLength(labels_of_dmc)
          /\ ~SameEvenLength(labels_of_dmc) => err' = "IndexError"
          /\ (SameEvenLength(labels_of_dmc) /\ DOMAIN labels_of_dmc # {}) => err' = "none"
          /\ err' = "none" =>
                /\ Len(returned'.ratios_OK) = MaxLabelLength(labels_of_dmc) \div 2
                /\ Len(returned'.ratios_NOK) = Len(returned'.ratios_OK)
                /\ \A k \in DOMAIN returned'.ratios_OK :
                      /\ returned'.ratios_OK[k][1] + returned'.ratios_NOK[k][1]
                            = 2 * Cardinality(DOMAIN labels_of_dmc)
                      /\ returned'.ratios_OK[k][2] = 2 * Cardinality(DOMAIN labels_of_dmc)
                      /\ returned'.ratios_NOK[k][2] = 2 * Cardinality(DOMAIN labels_of_dmc)]_vars

\* A loader in the Aggregated stage, one of whose workpieces has an odd number of
\* labels, on which the aggregation raised.
C19_Witness ==
    /\ op = "BasePlotter.plot_dmc_label_ratio"
    /\ err = "IndexError"
    /\ Aggregated
    /\ all_runs # <<>>
    /\ \E key \in DOMAIN labels_of_dmc : Len(labels_of_dmc[key]) % 2 = 1

\* The run ids before position i are files of the raw data that parse.
ParseUpTo(run_ids, i) ==
    \A j \in 1..(i - 1) : run_ids[j] \in Range(raw_listing) /\ ~LacksSeries(run_ids[j])

\* C20: a run id is always opened in the raw-data directory, whatever directory it was
\* listed in.  When load_runs returned, every run is the record of that name in the raw
\* data, so an id that occurs twice gives the same record twice; when an id is not a
\* file of the raw data, load_runs raises (FileNotFoundError when no earlier id fails)
\* and loads nothing.
C20_RunsReadFromRawData ==
    /\ [](LoadRunsReturned =>
              /\ Len(all_runs) = Len(all_run_ids)
              /\ \A i \in DOMAIN all_run_ids :
                    /\ all_run_ids[i] \in Range(raw_listing)
                    /\ all_runs[i] = ScrewRun(all_run_ids[i], raw_listing)
              /\ \A i, j \in DOMAIN all_run_ids :
                    all_run_ids[i] = all_run_ids[j] => all_runs[i] = all_runs[j])
    /\ [][(\/ alive /\ op' = "load_runs"
           \/ op' = "__init__" /\ \E k \in DOMAIN calls' : calls'[k] = "load_runs")
          => \A i \in DOMAIN all_run_ids' :
                all_run_ids'[i] \notin Range(raw_listing) =>
                    /\ err' # "none"
                    /\ calls'[Len(calls')] = "load_runs"
                    /\ all_runs' = IF op' = "load_runs" THEN all_runs ELSE <<>>
                    /\ ParseUpTo(all_run_ids', i) => err' = "FileNotFoundError"]_vars

\* Scenario 2 lists r4.json, which the raw data does not hold.
C20_Witness ==
    /\ kind = "scenario"
    /\ op = "__init__"
    /\ arg = PyInt(2)
    /\ all_run_ids = <<"r3.json", "r4.json">>
    /\ "r4.json" \notin Range(raw_listing)
    /\ err = "FileNotFoundError"
    /\ all_runs = <<>>

\* How often a run id occurs in a list of run ids.
Occurrences(run_id, run_ids) == Cardinality({ i \in DOMAIN run_ids : run_ids[i] = run_id })

\* The caller called DataFromPath.load_run_ids on the loader it holds and the call
\* returned.
LoadRunIdsFromPathReturned ==
    /\ alive
    /\ kind \in {"path", "scenario"}
    /\ op' = "load_run_ids"
    /\ err' = "none"

\* C21: DataFromPath.load_run_ids empties all_runs, puts the ids it lists behind the
\* ids all_run_ids already holds and leaves the six aggregates as they are, so every
\* id then occurs as often as before plus as often as it was listed; and on such a
\* loader, once all_run_ids and all_runs differ in length they keep differing until
\* load_runs is called.
C21_LoadRunIdsAppends ==
    /\ [][LoadRunIdsFromPathReturned =>
              LET listed == JsonListings(PathsGiven(arg'), raw_listing) IN
              /\ all_runs' = <<>>
              /\ all_run_ids' = all_run_ids \o listed
              /\ Aggregates' = Aggregates
              /\ \A run_id \in Range(all_run_ids') :
                    Occurrences(run_id, all_run_ids')
                        = Occurrences(run_id, all_run_ids) + Occurrences(run_id, listed)
              /\ listed # <<>> => Len(all_run_ids') # Len(all_runs')]_vars
    /\ [][(/\ alive /\ alive'
            /\ kind \in {"path", "scenario"}
            /\ Len(all_run_ids) # Len(all_runs)
            /\ op' # "load_runs")
           => Len(all_run_ids') # Len(all_runs')]_vars

\* The second call on the same directory: every id twice, no runs, the aggregates of
\* the first load still in place.
C21_Witness ==
    /\ kind = "path"
    /\ op = "load_run_ids"
    /\ err = "none"
    /\ arg = PyStr("data/01_repeated-screw-runs-x25")
    /\ all_run_ids = <<"r1.json", "r2.json", "r1.json", "r2.json">>
    /\ all_runs = <<>>
    /\ count_of_ok = 1 /\ count_of_nok = 1
    /\ num_of_runs = 2

====
